---- MODULE Spec2Model ----
(***************************************************************************)
(* A model of package fastrand (src/fastrand.go): the hash-counter         *)
(* generator Reader, its one-time initialization, Reader.Read under        *)
(* concurrent callers, and the sampling helpers Bytes, Intn and Perm.      *)
(*                                                                         *)
(* Byte buffers keep Go's 0-based indices.  The first 16 bytes of          *)
(* r.entropy are only ever accessed by the code as two uint64 words        *)
(* (unsafe.Pointer casts at offsets 0 and 8), so they are modelled as the  *)
(* words lo and hi; bytes 16..47 are modelled byte by byte.                *)
(*                                                                         *)
(* blake2b is a black box: a digest is the symbolic term Hash(input), its  *)
(* i-th byte the pair of the digest and i.  The numeric value of the first *)
(* 8 bytes of a digest, which Intn reads, ranges over every value of the   *)
(* word type.  The word type is scaled from 64 bits to WordBits bits.      *)
(***************************************************************************)
EXTENDS Integers, Sequences, FiniteSets, TLC

\* ---------------------------------------------------------------- sizes
\* Program constants.
CounterBytes == 16
DigestSize == 32
SeedDraw == 64
WordBytes == 8

\* Bounds of the model.
WordBits == 5
NThreads == 2
MaxCalls == 2
MaxFull == 1
MaxTries == 1
MaxPerm == 4
MaxBig == 3

RECURSIVE Pow2(_)
Pow2(k) == IF k = 0 THEN 1 ELSE 2 * Pow2(k - 1)

\* The number of values of the unsigned word type (2^64 in the code), the
\* largest of them, and the range of the signed type int.
WordMod == Pow2(WordBits)
MaxUint64 == WordMod - 1
MaxInt == Pow2(WordBits - 1) - 1
MinInt == -Pow2(WordBits - 1)

EntropyLen == CounterBytes + DigestSize

Threads == 1..NThreads
NoThread == 0

\* The entropy source's possible 64-byte outputs, by name.
EntropySources == {"e1", "e2"}

Min(a, b) == IF a < b THEN a ELSE b

\* len of a byte buffer (a function on 0..len-1)
BLen(b) == Cardinality(DOMAIN b)

\* make([]int, n): n zeros
Zeros(n) == [k \in 0..(n - 1) |-> 0]

\* A byte is the zero byte make leaves, a byte of caller-supplied memory that
\* Read has not written, or a byte of a digest.
ZeroByte == [kind |-> "zero"]
Old == [kind |-> "old"]
IsDigestByte(x) == x.kind = "digest"

\* make([]byte, n): n zero bytes
ZeroBytes(n) == [k \in 0..(n - 1) |-> ZeroByte]

\* ---------------------------------------------------------------- hash
\* blake2b: an injective symbolic digest of everything written since Reset.
Hash(written) == [blake2b |-> written]

\* The DigestSize bytes of a digest.
DigestBytes(d) ==
    [i \in 0..(DigestSize - 1) |-> [kind |-> "digest", digest |-> d, i |-> i]]

\* h.Sum(b) is append(b, digest...), for the slice b = arr[off : off+len] of
\* capacity cap: Go's append writes in place when the capacity has room and
\* otherwise copies to a new array, leaving arr alone.  arr is a function
\* from absolute indices to bytes.
SumFits(len, cap) == len + DigestSize <= cap

SumInPlace(arr, off, len, cap, d) ==
    IF SumFits(len, cap)
    THEN [k \in DOMAIN arr |->
            IF k >= off + len /\ k < off + len + DigestSize
            THEN DigestBytes(d)[k - off - len]
            ELSE arr[k]]
    ELSE arr

\* ---------------------------------------------------------------- state
VARIABLES
    proc,       \* "init" before package initialization, then "ready" or "crashed"
    initErr,    \* the err of io.CopyN in the initializer, Nil when none
    entropy,    \* Reader.entropy: [lo, hi, seed], or Nil while Reader is nil
    h,          \* Reader.h: the chunks written since the last Reset
    buf,        \* Reader.buf: [len, arr]
    mu,         \* Reader.mu: the thread holding it, or NoThread
    th,         \* each thread's frame
    lastHashed, \* history: the counter value of the latest digest computation
    calls       \* number of top-level calls started

vars == <<proc, initErr, entropy, h, buf, mu, th, lastHashed, calls>>

Nil == "nil"
NoDigest == -1
NilSlice == [len |-> 0, arr |-> <<>>]

\* A thread's frame: op is the function the client called, pc the position in
\* it; b, n are Reader.Read's; ctr0, k, hc are history (the counter when the
\* lock was taken, the digests computed by this call, the counter value of
\* the latest of them); arg, max are Intn's, tries the draws the call has
\* rejected; pn, i, m are Perm's (ns: the bounds it passed to Intn, js: the
\* values Intn returned).  For BigIntn arg is n and res what rand.Int
\* returned.
Idle == [pc |-> "idle", op |-> "none", b |-> <<>>, n |-> 0,
         ctr0 |-> 0, k |-> 0, hc |-> NoDigest,
         arg |-> 0, max |-> 0, tries |-> 0,
         pn |-> 0, i |-> 0, m |-> <<>>, ns |-> <<>>, js |-> <<>>,
         res |-> Nil, err |-> Nil]

Init ==
    /\ proc = "init"
    /\ initErr = Nil
    /\ entropy = Nil
    /\ h = <<>>
    /\ buf = NilSlice
    /\ mu = NoThread
    /\ th = [t \in Threads |-> Idle]
    /\ lastHashed = NoDigest
    /\ calls = 0

\* The counter as one integer, high * 2^w + low.
CounterValue(e) == e.hi * WordMod + e.lo

\* ------------------------------------------------------- initialization
\* make([]byte, 16+32): zeroed
MakeEntropy == [lo |-> 0, hi |-> 0,
                seed |-> [k \in CounterBytes..(EntropyLen - 1) |-> ZeroByte]]

\* r.h.Sum(r.entropy[16:]): the slice has len = cap = EntropyLen - 16.
InitSeed(seed, d) ==
    SumInPlace(seed, CounterBytes, EntropyLen - CounterBytes,
               EntropyLen - CounterBytes, d)

\* The 64 bytes io.CopyN wrote to r.h.
SourceChunk(e) == [src |-> e, len |-> SeedDraw]

\* Faulty variant: the error of io.CopyN is ignored.
AfterCopyNIgnored(err) == "ready"

\* if err != nil { panic(...) }: a panic in a package initializer ends the
\* process before any function of the package can be called.
AfterCopyN(err) == IF err # Nil THEN "crashed" ELSE "ready"

\* The initializer of the package variable Reader, io.CopyN having copied all
\* 64 bytes.  The slice r.h.Sum returns is dropped.
ReaderInitOk ==
    /\ proc = "init"
    /\ initErr' = Nil
    /\ \E e \in EntropySources :
          /\ h' = <<SourceChunk(e)>>
          /\ entropy' = [MakeEntropy EXCEPT
                            !.seed = InitSeed(MakeEntropy.seed, Hash(h'))]
    /\ proc' = AfterCopyN(initErr')
    /\ UNCHANGED <<buf, mu, th, lastHashed, calls>>

\* The initializer, io.CopyN having failed: the panic leaves Reader nil, and
\* the local r, with whatever its hash state absorbed, is unreachable.
ReaderInitFail ==
    /\ proc = "init"
    /\ initErr' = "EOF"
    /\ proc' = AfterCopyN(initErr')
    /\ UNCHANGED <<entropy, h, buf, mu, th, lastHashed, calls>>

\* ---------------------------------------------------------- Reader.Read
ReadLens == {0, 1} \cup {k * DigestSize + d : k \in 1..MaxFull, d \in {0, 1}}

\* for n < len(b)
LoopPc(n, len) == IF n < len THEN "inc" ELSE "unlock"

\* A client calls Reader.Read(b) on a buffer of its own.
CallRead(t) ==
    /\ proc = "ready"
    /\ th[t].pc = "idle"
    /\ calls < MaxCalls
    /\ \E L \in ReadLens :
          th' = [th EXCEPT ![t] = [Idle EXCEPT !.pc = "lock", !.op = "Read",
                                      !.b = [k \in 0..(L - 1) |-> Old]]]
    /\ calls' = calls + 1
    /\ UNCHANGED <<proc, initErr, entropy, h, buf, mu, lastHashed>>

\* Faulty variant: a lock that excludes nobody.
CanLockAlways(m) == TRUE

\* r.mu.Lock(); n := 0
CanLock(m) == m = NoThread

Lock(t) ==
    /\ th[t].pc = "lock"
    /\ CanLock(mu)
    /\ mu' = t
    /\ th' = [th EXCEPT ![t].n = 0,
                        ![t].ctr0 = CounterValue(entropy),
                        ![t].k = 0,
                        ![t].hc = NoDigest,
                        ![t].pc = LoopPc(0, BLen(th[t].b))]
    /\ UNCHANGED <<proc, initErr, entropy, h, buf, lastHashed, calls>>

\* Faulty variant: the low word is also written at offset 16, over the first
\* bytes after the counter.
IncCounterIntoSeed(e) ==
    [e EXCEPT !.lo = (e.lo + 1) % WordMod,
              !.seed = [k \in DOMAIN e.seed |->
                           IF k < CounterBytes + WordBytes
                           THEN [kind |-> "word"]
                           ELSE e.seed[k]]]

\* Faulty variant: the carry into the high word is forgotten.
IncCounterNoCarry(e) == [e EXCEPT !.lo = (e.lo + 1) % WordMod]

\* The counter increment of lines 36-39.
IncCounter(e) ==
    LET lo == (e.lo + 1) % WordMod
    IN  [e EXCEPT !.lo = lo,
                  !.hi = IF lo = 0 THEN (e.hi + 1) % WordMod ELSE e.hi]

Inc(t) ==
    /\ th[t].pc = "inc"
    /\ entropy' = IncCounter(entropy)
    /\ th' = [th EXCEPT ![t].pc = "hash"]
    /\ UNCHANGED <<proc, initErr, h, buf, mu, lastHashed, calls>>

\* r.buf = r.h.Sum(r.buf[:0])
SumBuf(s, d) ==
    IF SumFits(0, BLen(s.arr))
    THEN [len |-> DigestSize, arr |-> SumInPlace(s.arr, 0, 0, BLen(s.arr), d)]
    ELSE [len |-> DigestSize, arr |-> DigestBytes(d)]

\* The bytes r.h.Write(r.entropy) feeds the hash: the two counter words and
\* bytes 16..47, a run of zero bytes written as its length (the encoding is
\* one-to-one).
Written(e) ==
    [lo |-> e.lo, hi |-> e.hi,
     seed |-> IF \A k \in DOMAIN e.seed : e.seed[k] = ZeroByte
              THEN [zeros |-> Cardinality(DOMAIN e.seed)]
              ELSE e.seed]

\* r.h.Reset(); r.h.Write(r.entropy); r.buf = r.h.Sum(r.buf[:0])
HashSum(t) ==
    /\ th[t].pc = "hash"
    /\ h' = <<Written(entropy)>>
    /\ buf' = SumBuf(buf, Hash(h'))
    /\ lastHashed' = CounterValue(entropy)
    /\ th' = [th EXCEPT ![t].pc = "copy",
                        ![t].k = th[t].k + 1,
                        ![t].hc = CounterValue(entropy)]
    /\ UNCHANGED <<proc, initErr, entropy, mu, calls>>

\* Faulty variant: at most half a digest is copied each time round.
CopyCountHalf(blen, n, slen) == Min(blen - n, slen \div 2)

\* Faulty variant: the whole digest is counted, whatever room b has left.
CopyCountFull(blen, n, slen) == slen

\* copy(b[n:], r.buf[:]) copies min(len(b) - n, len(r.buf)) bytes.
CopyCount(blen, n, slen) == Min(blen - n, slen)

CopyInto(b, n, s) ==
    [k \in DOMAIN b |->
        IF k >= n /\ k < n + CopyCount(BLen(b), n, s.len)
        THEN s.arr[k - n]
        ELSE b[k]]

\* n += copy(b[n:], r.buf[:])
Copy(t) ==
    /\ th[t].pc = "copy"
    /\ LET n2 == th[t].n + CopyCount(BLen(th[t].b), th[t].n, buf.len)
       IN  th' = [th EXCEPT ![t].b = CopyInto(th[t].b, th[t].n, buf),
                            ![t].n = n2,
                            ![t].pc = LoopPc(n2, BLen(th[t].b))]
    /\ UNCHANGED <<proc, initErr, entropy, h, buf, mu, lastHashed, calls>>

\* Faulty variant: a return path that keeps the lock.
ReleasedNot(m) == m

\* r.mu.Unlock()
Released(m) == NoThread

\* return n, nil
ReadReturn(n) == [n |-> n, err |-> Nil]

\* Where a finished Reader.Read returns to: the client (Bytes drops the
\* result and returns b), io.ReadFull inside rand.Int, or Intn's decoding of
\* the 8 bytes.
AfterRead(op) ==
    IF op \in {"Read", "Bytes"} THEN "done"
    ELSE IF op = "BigIntn" THEN "readfull"
    ELSE "decode"

\* The callers that look at what Reader.Read returned: the client of Read,
\* and io.ReadFull; Bytes and Intn drop it.
ReadResultUsed(op) == op \in {"Read", "BigIntn"}

Unlock(t) ==
    /\ th[t].pc = "unlock"
    /\ mu' = Released(mu)
    /\ th' = [th EXCEPT ![t].pc = AfterRead(th[t].op),
                        ![t].res = IF ReadResultUsed(th[t].op)
                                   THEN ReadReturn(th[t].n) ELSE Nil]
    /\ UNCHANGED <<proc, initErr, entropy, h, buf, lastHashed, calls>>

\* The client takes the result (or recovers the panic) and goes on.
Finish(t) ==
    /\ th[t].pc \in {"done", "panicked"}
    /\ th' = [th EXCEPT ![t] = Idle]
    /\ UNCHANGED <<proc, initErr, entropy, h, buf, mu, lastHashed, calls>>

ReadStep(t) ==
    \/ Lock(t)
    \/ Inc(t)
    \/ HashSum(t)
    \/ Copy(t)
    \/ Unlock(t)

\* Concurrent clients of Reader.Read.
Next ==
    \/ ReaderInitOk
    \/ ReaderInitFail
    \/ \E t \in Threads : CallRead(t)
    \/ \E t \in Threads : ReadStep(t)
    \/ \E t \in Threads : Finish(t)

Spec == Init /\ [][Next]_vars

\* The scheduler runs every runnable goroutine, and a goroutine waiting for
\* a free mutex gets it.
FairSpec == Spec /\ \A t \in Threads : WF_vars(ReadStep(t))
\* ------------------------------------------------------------- sampling
\* The client of the sampling functions.
Client == 1

PanicIntn == "fastrand: argument to Intn is <= 0"
PanicMake == "runtime error: makeslice: len out of range"

\* Bytes: b := make([]byte, n); Read(b); return b.  The result is b.
BytesArgs == {-1, WordBytes} \cup ReadLens

CallBytes(t) ==
    /\ proc = "ready"
    /\ th[t].pc = "idle"
    /\ calls < MaxCalls
    /\ \E n \in BytesArgs :
          th' = [th EXCEPT ![t] =
                    IF n < 0
                    THEN [Idle EXCEPT !.pc = "panicked", !.op = "Bytes",
                                      !.err = PanicMake]
                    ELSE [Idle EXCEPT !.pc = "lock", !.op = "Bytes",
                                      !.b = ZeroBytes(n)]]
    /\ calls' = calls + 1
    /\ UNCHANGED <<proc, initErr, entropy, h, buf, mu, lastHashed>>

\* The conversions uint64(n) and int(x), two's complement.
Uint64(n) == n % WordMod
ToInt(x) == IF x > MaxInt THEN x - WordMod ELSE x

\* Faulty variant: only n = 0 is refused.
IntnPanicsOnZero(n) == n = 0

\* if n <= 0 { panic(...) }
IntnPanics(n) == n <= 0

\* Faulty variant: no value is rejected.
IntnMaxAll(n) == MaxUint64

\* Faulty variant: the threshold is taken from the number of values, not
\* from the largest value.
IntnMaxOfW(n) == WordMod - (WordMod % Uint64(n))

\* Faulty variant: the threshold is one multiple of n lower.
IntnMaxOneLess(n) == MaxUint64 - (MaxUint64 % Uint64(n)) - Uint64(n)

\* max := math.MaxUint64 - math.MaxUint64%uint64(n)
IntnMax(n) == MaxUint64 - (MaxUint64 % Uint64(n))

\* Faulty variant: the modulus is off by one.
IntnResultOffByOne(r, n) == ToInt(r % (Uint64(n) + 1))

\* return int(r % uint64(n))
IntnResult(r, n) == ToInt(r % Uint64(n))

\* r = *(*uint64)(unsafe.Pointer(&b[0])): the first 8 bytes of b as a word.
\* Digest bytes may hold any value; bytes make left alone are zero.
WordValues(b) ==
    IF \E k \in 0..(WordBytes - 1) : IsDigestByte(b[k])
    THEN 0..MaxUint64
    ELSE {0}

\* Frame f enters Intn(n): the argument check, max, and b := Bytes(8) up to
\* its call of Reader.Read.
StartIntn(f, n) ==
    IF IntnPanics(n)
    THEN [f EXCEPT !.pc = "panicked", !.arg = n, !.err = PanicIntn]
    ELSE [f EXCEPT !.pc = "lock", !.arg = n, !.max = IntnMax(n),
                   !.b = ZeroBytes(WordBytes)]

IntnArgs == MinInt..MaxInt

CallIntn(t) ==
    /\ proc = "ready"
    /\ th[t].pc = "idle"
    /\ calls < MaxCalls
    /\ \E n \in IntnArgs :
          th' = [th EXCEPT ![t] = StartIntn([Idle EXCEPT !.op = "Intn"], n)]
    /\ calls' = calls + 1
    /\ UNCHANGED <<proc, initErr, entropy, h, buf, mu, lastHashed>>

\* Faulty variant: j := Intn(i)
PermBoundI(i) == i

\* Perm's loop bound for Intn: j := Intn(i + 1)
PermBound(i) == i + 1

\* Faulty variant: m[i] = m[j] is forgotten.
PermAssignNoMove(m, i, j) == [m EXCEPT ![j] = i]

\* Faulty variant: the new element always goes to the front, whatever j is.
PermAssignFront(m, i, j) == [m EXCEPT ![i] = m[0], ![0] = i]

\* m[i] = m[j]; m[j] = i
PermAssign(m, i, j) == [m EXCEPT ![i] = m[j], ![j] = i]

\* for i := 1; i < n; i++ { j := Intn(i + 1) ... }; return m.  The result is m.
PermLoop(f) ==
    IF f.i < f.pn
    THEN StartIntn([f EXCEPT !.ns = Append(f.ns, PermBound(f.i))],
                   PermBound(f.i))
    ELSE [f EXCEPT !.pc = "done"]

PermArgs == -1..MaxPerm

CallPerm(t) ==
    /\ proc = "ready"
    /\ th[t].pc = "idle"
    /\ calls < MaxCalls
    /\ \E n \in PermArgs :
          th' = [th EXCEPT ![t] =
                    IF n < 0
                    THEN [Idle EXCEPT !.pc = "panicked", !.op = "Perm",
                                      !.pn = n, !.err = PanicMake]
                    ELSE PermLoop([Idle EXCEPT !.op = "Perm", !.pn = n,
                                               !.m = Zeros(n), !.i = 1])]
    /\ calls' = calls + 1
    /\ UNCHANGED <<proc, initErr, entropy, h, buf, mu, lastHashed>>

\* Intn returns v to frame f: to the client, or into Perm's loop body.
IntnReturn(f, v) ==
    IF f.op = "Intn"
    THEN [f EXCEPT !.pc = "done", !.res = v]
    ELSE PermLoop([f EXCEPT !.m = PermAssign(f.m, f.i, v),
                            !.js = Append(f.js, v),
                            !.i = f.i + 1])

\* Intn after a draw: r is read from b; r >= max draws again with Read(b),
\* otherwise Intn returns.
Decode(t) ==
    /\ th[t].pc = "decode"
    /\ \E r \in WordValues(th[t].b) :
          IF r >= th[t].max
          THEN /\ th[t].tries < MaxTries
               /\ th' = [th EXCEPT ![t].tries = th[t].tries + 1,
                                   ![t].pc = "lock"]
          ELSE th' = [th EXCEPT ![t] =
                         IntnReturn(th[t], IntnResult(r, th[t].arg))]
    /\ UNCHANGED <<proc, initErr, entropy, h, buf, mu, lastHashed, calls>>

\* ------------------------------------------------------------- BigIntn
\* BigIntn(n) is i, _ := rand.Int(Reader, n); return i.  crypto/rand.Int is
\* the standard library's: it panics when n.Sign() <= 0; with n - 1 of bit
\* length 0 it returns 0 without reading; otherwise it fills
\* k = (bitLen + 7) / 8 bytes with io.ReadFull(Reader, bytes), returns
\* (nil, err) when that fails, clears the bits of bytes[0] above the bit
\* length, and returns the big-endian value when it is below n, reading
\* again when it is not.
PanicBigInt == "crypto/rand: argument to Int is <= 0"

\* A *big.Int: nil, or a pointer to the value v.
NilBig == [ptr |-> "nil"]
BigRef(v) == [ptr |-> "big", val |-> v]

RECURSIVE BitLen(_)
BitLen(x) == IF x <= 0 THEN 0 ELSE 1 + BitLen(x \div 2)

BigPanics(n) == n <= 0

\* k := (bitLen + 7) / 8
BigByteLen(n) == (BitLen(n - 1) + 7) \div 8

\* Faulty variant: a candidate equal to n is accepted.
BigAcceptLe(c, n) == c <= n

\* if n.Cmp(max) < 0 { return }
BigAccept(c, n) == c < n

\* io.ReadFull on one Read that returned (n, err) for k bytes asked: nil when
\* all k came, else the error of Read (EOF after some bytes becomes
\* ErrUnexpectedEOF); a short Read without error is followed by another.
ReadFullErr(res, k) ==
    IF res.n >= k THEN Nil
    ELSE IF res.err = Nil THEN "again"
    ELSE IF res.n > 0 /\ res.err = "EOF" THEN "unexpected EOF"
    ELSE res.err

\* n.SetBytes(bytes) after the mask: digest bytes may hold any value of the
\* bit length of n - 1.
BigCandidates(b, n) ==
    IF \E k \in DOMAIN b : IsDigestByte(b[k])
    THEN 0..(Pow2(BitLen(n - 1)) - 1)
    ELSE {0}

\* The bounds BigIntn is called with: the small ones, and the two around the
\* step from one byte to two.
BigArgs == (-1..MaxBig) \cup {Pow2(8), Pow2(8) + 1}

\* rand.Int up to its first io.ReadFull.  The result is (res.i, res.err), of
\* which BigIntn returns res.i.
CallBigIntn(t) ==
    /\ proc = "ready"
    /\ th[t].pc = "idle"
    /\ calls < MaxCalls
    /\ \E n \in BigArgs :
          th' = [th EXCEPT ![t] =
                    IF BigPanics(n)
                    THEN [Idle EXCEPT !.pc = "panicked", !.op = "BigIntn",
                                      !.arg = n, !.err = PanicBigInt]
                    ELSE IF BitLen(n - 1) = 0
                    THEN [Idle EXCEPT !.pc = "done", !.op = "BigIntn",
                                      !.arg = n,
                                      !.res = [i |-> BigRef(0), err |-> Nil]]
                    ELSE [Idle EXCEPT !.pc = "lock", !.op = "BigIntn",
                                      !.arg = n,
                                      !.b = ZeroBytes(BigByteLen(n))]]
    /\ calls' = calls + 1
    /\ UNCHANGED <<proc, initErr, entropy, h, buf, mu, lastHashed>>

\* rand.Int after Reader.Read has returned to io.ReadFull.
BigDecode(t) ==
    /\ th[t].pc = "readfull"
    /\ LET e == ReadFullErr(th[t].res, BLen(th[t].b))
       IN  IF e = "again"
           THEN th' = [th EXCEPT ![t].pc = "lock"]
           ELSE IF e # Nil
           THEN th' = [th EXCEPT ![t].pc = "done",
                                 ![t].res = [i |-> NilBig, err |-> e]]
           ELSE \E c \in BigCandidates(th[t].b, th[t].arg) :
                   IF BigAccept(c, th[t].arg)
                   THEN th' = [th EXCEPT ![t].pc = "done",
                                         ![t].res = [i |-> BigRef(c),
                                                     err |-> Nil]]
                   ELSE /\ th[t].tries < MaxTries
                        /\ th' = [th EXCEPT ![t].tries = th[t].tries + 1,
                                            ![t].pc = "lock"]
    /\ UNCHANGED <<proc, initErr, entropy, h, buf, mu, lastHashed, calls>>

\* One client calling the package's functions.
NextSampling ==
    \/ ReaderInitOk
    \/ ReaderInitFail
    \/ CallRead(Client)
    \/ CallBytes(Client)
    \/ CallIntn(Client)
    \/ CallPerm(Client)
    \/ CallBigIntn(Client)
    \/ ReadStep(Client)
    \/ Decode(Client)
    \/ BigDecode(Client)
    \/ Finish(Client)

SpecSampling == Init /\ [][NextSampling]_vars
\* ------------------------------------------------- a long-running process
\* Counter values around the wrap of the low word, low and high in the high
\* word; the wrap of the whole counter stays out of reach.
CounterStarts ==
    {[lo |-> l, hi |-> hh] : l \in {0, MaxUint64 - 1, MaxUint64},
                             hh \in {0, MaxUint64 - 1}}

\* The generator of a process that has computed c.hi * 2^w + c.lo digests
\* and has no call under way: the counter is c, the hash state and buf are
\* those of the latest digest (of the initializer when there was none).
RunningAt(c) ==
    LET e == [MakeEntropy EXCEPT !.lo = c.lo, !.hi = c.hi]
    IN  /\ proc = "ready"
        /\ initErr = Nil
        /\ entropy = e
        /\ mu = NoThread
        /\ th = [t \in Threads |-> Idle]
        /\ calls = 0
        /\ IF CounterValue(e) = 0
           THEN /\ \E s \in EntropySources : h = <<SourceChunk(s)>>
                /\ buf = NilSlice
                /\ lastHashed = NoDigest
           ELSE /\ h = <<Written(e)>>
                /\ buf = [len |-> DigestSize, arr |-> DigestBytes(Hash(h))]
                /\ lastHashed = CounterValue(e)

InitRunning == \E c \in CounterStarts : RunningAt(c)

NextRunning ==
    \/ CallRead(Client)
    \/ ReadStep(Client)
    \/ Finish(Client)

SpecRunning == InitRunning /\ [][NextRunning]_vars
\* --------------------------------------------------------------- claims
\* Bytes 16..47 of an entropy buffer whose seed part holds digest d.
SeedOf(d) ==
    [k \in CounterBytes..(EntropyLen - 1) |-> DigestBytes(d)[k - CounterBytes]]

\* C1: when the initializer of Reader has completed (and nothing has been
\* called yet), bytes 16..47 of the entropy buffer hold the digest of the 64
\* bytes drawn from the entropy source, and the counter is zero.
C1_SeedIsDigest ==
    (proc = "ready" /\ calls = 0) =>
        /\ entropy.lo = 0
        /\ entropy.hi = 0
        /\ \E e \in EntropySources :
              entropy.seed = SeedOf(Hash(<<SourceChunk(e)>>))

\* C2: Reader.Read never counts more bytes than b has, and when it has
\* returned, every position of b holds a digest byte and the result is
\* (len(b), nil), whatever len(b) is.
C2_ReadFillsAll ==
    \A t \in Threads :
        /\ th[t].n <= BLen(th[t].b)
        /\ (th[t].pc = "done" /\ th[t].op = "Read") =>
              /\ th[t].res.n = BLen(th[t].b)
              /\ th[t].res.err = Nil
              /\ \A k \in DOMAIN th[t].b : IsDigestByte(th[t].b[k])

\* A Read has returned for a length that is no multiple of the digest size.
C2_PartialDigestRead ==
    \E t \in Threads :
        /\ th[t].pc = "done"
        /\ th[t].op = "Read"
        /\ BLen(th[t].b) = DigestSize + 1

\* C3: every digest computation, of whichever thread, hashes a counter value
\* strictly greater than the one hashed by the digest computation before it.
C3_CountersIncrease ==
    [][\A t \in Threads :
          (th[t].pc = "hash" /\ th'[t].pc = "copy") => lastHashed' > lastHashed]_vars

\* Two threads are inside Read calls and both have computed a digest.
C3_TwoCallersHashed ==
    \E t1, t2 \in Threads :
        /\ t1 # t2
        /\ th[t1].hc # NoDigest
        /\ th[t2].hc # NoDigest

\* C4: under fair scheduling every started Read call returns, and whenever
\* the lock is held, its holder is inside the locked part of a Read call.
C4_ReadsReturn ==
    /\ \A t \in Threads : [](th[t].pc # "idle" => <>(th[t].pc = "done"))
    /\ [](mu # NoThread => th[mu].pc \in {"inc", "hash", "copy", "unlock"})

\* One thread holds the lock while another waits for it.
C4_Contention ==
    \E t1, t2 \in Threads :
        /\ t1 # t2
        /\ mu = t1
        /\ th[t2].pc = "lock"

\* C5: a value Intn(n) returns, to the client or to Perm, is in [0, n).
C5_IntnInRange ==
    \A t \in Threads :
        /\ (th[t].op = "Intn" /\ th[t].pc = "done") =>
              (th[t].res >= 0 /\ th[t].res < th[t].arg)
        /\ \A k \in DOMAIN th[t].js :
              th[t].js[k] >= 0 /\ th[t].js[k] < th[t].ns[k]

\* Intn has returned its largest value after rejecting a draw.
C5_ReturnedAfterReject ==
    \E t \in Threads :
        /\ th[t].op = "Intn"
        /\ th[t].pc = "done"
        /\ th[t].tries > 0
        /\ th[t].arg > 1
        /\ th[t].res = th[t].arg - 1

\* C6: Intn(n) with n <= 0 panics, having drawn nothing, and the step that
\* calls it leaves the generator as it was.
C6_IntnPanics ==
    /\ [](\A t \in Threads :
            (th[t].op = "Intn" /\ th[t].arg <= 0) =>
                /\ th[t].pc = "panicked"
                /\ th[t].err = PanicIntn
                /\ th[t].k = 0
                /\ BLen(th[t].b) = 0)
    /\ [][\A t \in Threads :
            (th[t].pc = "idle" /\ th'[t].op = "Intn" /\ th'[t].arg <= 0) =>
                UNCHANGED <<entropy, h, buf, mu, lastHashed>>]_vars

\* Intn has panicked on a generator that earlier calls have advanced.
C6_PanicAfterUse ==
    \E t \in Threads :
        /\ th[t].op = "Intn"
        /\ th[t].pc = "panicked"
        /\ th[t].arg <= 0
        /\ CounterValue(entropy) > 0

\* C7: in Intn's rejection loop max is a positive multiple of n, and every
\* v in [0, n) is the result for exactly max / n of the raw values below max.
C7_MaxMultipleOfN ==
    \A t \in Threads :
        th[t].pc = "decode" =>
            LET n == th[t].arg
                mx == th[t].max
            IN  /\ mx > 0
                /\ mx <= MaxUint64
                /\ mx % n = 0
                /\ \A v \in 0..(n - 1) :
                      Cardinality({r \in 0..(mx - 1) : IntnResult(r, n) = v})
                          = mx \div n

\* Intn is about to test a draw, having rejected one: max cuts values off.
C7_Rejecting ==
    \E t \in Threads :
        /\ th[t].pc = "decode"
        /\ th[t].arg > 1
        /\ th[t].max < MaxUint64
        /\ th[t].tries > 0

\* C8: Perm(n) returns a slice of length n holding each integer of [0, n)
\* exactly once; Perm(1) is [0].
C8_PermIsPermutation ==
    \A t \in Threads :
        (th[t].op = "Perm" /\ th[t].pc = "done") =>
            LET n == th[t].pn
                m == th[t].m
            IN  /\ DOMAIN m = 0..(n - 1)
                /\ \A v \in 0..(n - 1) :
                      Cardinality({k \in DOMAIN m : m[k] = v}) = 1
                /\ (n = 1 => m[0] = 0)

\* Perm has returned a slice of three or more that moved 0 off the front.
C8_Shuffled ==
    \E t \in Threads :
        /\ th[t].op = "Perm"
        /\ th[t].pc = "done"
        /\ th[t].pn >= 3
        /\ th[t].m[0] # 0

\* The slice Perm(n) builds from the values js that Intn returns to it.
RECURSIVE PermFold(_, _, _, _)
PermFold(m, js, i, n) ==
    IF i < n THEN PermFold(PermAssign(m, i, js[i]), js, i + 1, n) ELSE m

PermOf(n, js) == PermFold(Zeros(n), js, 1, n)

\* The choice sequences (j_1, ..., j_{n-1}), j_i in [0, i].
ChoiceSeqs(n) ==
    {js \in [1..(n - 1) -> 0..(n - 1)] : \A i \in 1..(n - 1) : js[i] <= i}

RECURSIVE Factorial(_)
Factorial(n) == IF n <= 1 THEN 1 ELSE n * Factorial(n - 1)

IsPermutation(m, n) ==
    /\ DOMAIN m = 0..(n - 1)
    /\ \A v \in 0..(n - 1) : \E k \in DOMAIN m : m[k] = v

\* For each n: the choice sequences map one-to-one onto the n! permutations.
PermBijection ==
    [n \in 0..MaxPerm |->
        LET image == {PermOf(n, js) : js \in ChoiceSeqs(n)}
        IN  /\ \A m \in image : IsPermutation(m, n)
            /\ Cardinality(image) = Factorial(n)
            /\ Cardinality(ChoiceSeqs(n)) = Factorial(n)]

\* C9: the slice Perm(n) returns is the image of the choices Intn made for
\* it, each j_i in [0, i], under a map that is a bijection from the choice
\* sequences onto the n! permutations of [0, n).
C9_PermBijection ==
    \A t \in Threads :
        (th[t].op = "Perm" /\ th[t].pc = "done") =>
            LET n == th[t].pn
                js == th[t].js
            IN  /\ Len(js) = (IF n > 0 THEN n - 1 ELSE 0)
                /\ \A i \in DOMAIN js : js[i] >= 0 /\ js[i] <= i
                /\ th[t].m = PermOf(n, js)
                /\ PermBijection[n]

\* Perm has returned the reversal of [0, n) for the largest n.
C9_Reversed ==
    \E t \in Threads :
        /\ th[t].op = "Perm"
        /\ th[t].pc = "done"
        /\ th[t].pn = MaxPerm
        /\ \A k \in DOMAIN th[t].m : th[t].m[k] = MaxPerm - 1 - k

\* C10: when the entropy source has failed, the process has crashed with
\* Reader nil, no call has been made and no step is ever taken again.
C10_InitFailureHalts ==
    /\ [](initErr # Nil =>
            /\ proc = "crashed"
            /\ entropy = Nil
            /\ h = <<>>
            /\ buf = NilSlice
            /\ mu = NoThread
            /\ lastHashed = NoDigest
            /\ calls = 0
            /\ \A t \in Threads : th[t] = Idle)
    /\ [][initErr = Nil]_vars

\* The initializer has panicked.
C10_Crashed == initErr # Nil /\ proc = "crashed"

\* C11: BigIntn(n) with n <= 0 panics, having read nothing, and for n > 0
\* what it returns is a non-nil integer in [0, n), the error it drops being
\* nil.
C11_BigIntnContract ==
    \A t \in Threads :
        th[t].op = "BigIntn" =>
            /\ th[t].arg <= 0 =>
                  /\ th[t].pc = "panicked"
                  /\ th[t].err = PanicBigInt
                  /\ th[t].k = 0
            /\ th[t].arg > 0 => th[t].pc # "panicked"
            /\ th[t].pc = "done" =>
                  /\ th[t].res.err = Nil
                  /\ th[t].res.i.ptr = "big"
                  /\ th[t].res.i.val >= 0
                  /\ th[t].res.i.val < th[t].arg

\* BigIntn has returned its largest value from two bytes, after a rejected
\* candidate.
C11_TwoBytesAfterReject ==
    \E t \in Threads :
        /\ th[t].op = "BigIntn"
        /\ th[t].pc = "done"
        /\ BLen(th[t].b) = 2
        /\ th[t].tries > 0
        /\ th[t].res.i = BigRef(th[t].arg - 1)

\* Bytes 16..47 of r.entropy at the end of an initialization that drew e,
\* and what a run so initialized writes to the hash when its counter is that
\* of c.  The counter of a run depends only on the calls made, so two runs
\* stepped together have it in common.
SeedAfterInit(e) == InitSeed(MakeEntropy.seed, Hash(<<SourceChunk(e)>>))
RunInput(e, c) == Written([lo |-> c.lo, hi |-> c.hi, seed |-> SeedAfterInit(e)])

\* C12: the input of every digest computation is the counter followed by the
\* seed of the run's entropy source, and two runs at the same digest
\* computation whose sources give different seed digests feed the hash
\* different inputs.
C12_SeedSeparatesRuns ==
    \A t \in Threads :
        th[t].pc = "copy" =>
            /\ \E e \in EntropySources : h = <<RunInput(e, entropy)>>
            /\ \A e1, e2 \in EntropySources :
                  Hash(<<SourceChunk(e1)>>) # Hash(<<SourceChunk(e2)>>) =>
                      RunInput(e1, entropy) # RunInput(e2, entropy)

\* C15: each counter increment of Read increments the low word modulo 2^w,
\* increments the high word when the low word wrapped to zero and leaves it
\* alone otherwise, and so adds exactly one to high * 2^w + low.
C15_IncrementAddsOne ==
    [][\A t \in Threads :
          (th[t].pc = "inc" /\ th'[t].pc = "hash") =>
              /\ entropy'.lo = (entropy.lo + 1) % WordMod
              /\ entropy'.lo = 0 => entropy'.hi = entropy.hi + 1
              /\ entropy'.lo # 0 => entropy'.hi = entropy.hi
              /\ entropy'.seed = entropy.seed
              /\ CounterValue(entropy') = CounterValue(entropy) + 1]_vars

\* An increment has just carried from a full low word into the high word.
C15_Carried ==
    \E t \in Threads :
        /\ th[t].pc = "hash"
        /\ entropy.lo = 0
        /\ entropy.hi = MaxUint64

\* The positions of Read between r.mu.Lock() and r.mu.Unlock().
Locked == {"inc", "hash", "copy", "unlock"}

\* C16: at most one Read call is between Lock and Unlock, and it is the
\* holder of the lock; a step that changes the counter, the hash state or
\* buf is a step of the holder and of no other thread; and the bytes a call
\* copies into b are those of the digest of the input it wrote itself.
C16_LockProtects ==
    /\ [](/\ Cardinality({t \in Threads : th[t].pc \in Locked}) <= 1
          /\ \A t \in Threads : th[t].pc \in Locked => mu = t)
    /\ [][(proc = "ready" /\ <<entropy, h, buf>>' # <<entropy, h, buf>>) =>
              /\ mu # NoThread
              /\ mu' = mu
              /\ th'[mu] # th[mu]
              /\ \A t \in Threads \ {mu} : th'[t] = th[t]]_vars
    /\ [][\A t \in Threads :
              (th[t].pc = "copy" /\ th'[t] # th[t]) =>
                  /\ mu = t
                  /\ th[t].hc = CounterValue(entropy)
                  /\ h = <<Written(entropy)>>
                  /\ \A j \in th[t].n..(th'[t].n - 1) :
                        th'[t].b[j] = DigestBytes(Hash(h))[j - th[t].n]]_vars

\* A thread is about to copy the second digest of its call while another
\* waits for the lock.
C16_CopyWhileWaiting ==
    \E t1, t2 \in Threads :
        /\ t1 # t2
        /\ th[t1].pc = "copy"
        /\ th[t1].k = 2
        /\ th[t2].pc = "lock"

\* The counter value in the hash input of the digest that byte x is from.
ByteCounter(x) == CounterValue(x.digest.blake2b[1])

\* C17: the j-th digest a Read call computes hashes the counter value c + j,
\* c being the counter when the call took the lock: the latest digest of a
\* call that has computed k of them is that of c + k, and the bytes the
\* call has copied so far come, 32 at a time, from c + 1, c + 2, ...
C17_ConsecutiveCounters ==
    \A t \in Threads :
        /\ th[t].k > 0 => th[t].hc = th[t].ctr0 + th[t].k
        /\ th[t].pc \in Locked =>
              \A j \in 0..(th[t].n - 1) :
                  /\ IsDigestByte(th[t].b[j])
                  /\ ByteCounter(th[t].b[j]) = th[t].ctr0 + (j \div DigestSize) + 1

\* A call that began after another call's digest has copied from a second
\* digest of its own, with the other thread inside a call as well.
C17_SecondDigestAfterOther ==
    \E t1, t2 \in Threads :
        /\ t1 # t2
        /\ th[t2].pc # "idle"
        /\ th[t1].pc = "unlock"
        /\ th[t1].k = 2
        /\ th[t1].ctr0 > 0
        /\ th[t1].n > DigestSize

\* C18: once the initializer has completed, no step changes bytes 16..47 of
\* r.entropy: in every state they are what the initializer left there.
C18_SeedNeverChanges ==
    /\ [](proc = "ready" =>
            \E e \in EntropySources : entropy.seed = SeedAfterInit(e))
    /\ [][proc = "ready" => entropy'.seed = entropy.seed]_vars

\* BigIntn has returned on a generator that has computed three digests or
\* more.
C18_AfterSeveralDraws ==
    \E t \in Threads :
        /\ th[t].op = "BigIntn"
        /\ th[t].pc = "done"
        /\ th[t].k > 0
        /\ CounterValue(entropy) >= 3

\* C19: the bounds Perm(n) has passed to Intn are 2, 3, ... in that order,
\* n - 1 of them when it returns (none for n = 0 and n = 1), and the step
\* that calls Perm(0) or Perm(1) returns at once and leaves the generator
\* as it was.
C19_PermDraws ==
    /\ [](\A t \in Threads :
            th[t].op = "Perm" =>
                /\ \A i \in DOMAIN th[t].ns : th[t].ns[i] = i + 1
                /\ Len(th[t].ns) <= (IF th[t].pn >= 2 THEN th[t].pn - 1 ELSE 0)
                /\ Len(th[t].js) \in {Len(th[t].ns) - 1, Len(th[t].ns)}
                /\ th[t].pc = "done" =>
                      /\ Len(th[t].ns) = (IF th[t].pn >= 2 THEN th[t].pn - 1 ELSE 0)
                      /\ Len(th[t].js) = Len(th[t].ns)
                /\ th[t].pn \in {0, 1} => th[t].pc = "done" /\ th[t].k = 0)
    /\ [][\A t \in Threads :
            (th[t].pc = "idle" /\ th'[t].op = "Perm" /\ th'[t].pn \in {0, 1}) =>
                UNCHANGED <<entropy, h, buf, mu, lastHashed>>]_vars

\* Perm has returned for the largest n, one of its Intn calls having
\* rejected a draw.
C19_PermAfterReject ==
    \E t \in Threads :
        /\ th[t].op = "Perm"
        /\ th[t].pc = "done"
        /\ th[t].pn = MaxPerm
        /\ th[t].tries > 0

\* The number of digests that cover L bytes.
DigestsFor(L) == (L + DigestSize - 1) \div DigestSize

\* C20: a Read call on L bytes has, when it reaches Unlock, computed
\* ceil(L / 32) digests and advanced the counter by as many; byte j of its
\* output is byte j mod 32 of its digest number j / 32 + 1, so the output
\* starts at byte 0 of a digest of a counter value above every one hashed
\* before; the counter values of two calls' digests do not overlap, so no
\* digest byte is output twice; and no step of a call with L = 0 changes
\* the counter, the hash state or buf.
C20_ReadAdvance ==
    /\ [](\A t \in Threads :
            /\ th[t].pc = "unlock" =>
                  /\ th[t].k = DigestsFor(BLen(th[t].b))
                  /\ CounterValue(entropy) = th[t].ctr0 + DigestsFor(BLen(th[t].b))
            /\ th[t].k <= DigestsFor(BLen(th[t].b))
            /\ th[t].pc \in Locked \cup {"done"} =>
                  \A j \in 0..(th[t].n - 1) :
                      /\ IsDigestByte(th[t].b[j])
                      /\ th[t].b[j].i = j % DigestSize
                      /\ ByteCounter(th[t].b[j]) = th[t].ctr0 + (j \div DigestSize) + 1
            /\ \A t2 \in Threads \ {t} :
                  (th[t].k > 0 /\ th[t2].k > 0) =>
                      \/ th[t].ctr0 + th[t].k <= th[t2].ctr0
                      \/ th[t2].ctr0 + th[t2].k <= th[t].ctr0)
    /\ [][\A t \in Threads :
            (th[t].op = "Read" /\ BLen(th[t].b) = 0 /\ th'[t] # th[t]) =>
                UNCHANGED <<entropy, h, buf, lastHashed>>]_vars

\* A Read of one byte and, after it, a Read of 33 bytes by another thread
\* have both returned.
C20_TrailingDiscarded ==
    \E t1, t2 \in Threads :
        /\ t1 # t2
        /\ th[t1].pc = "done"
        /\ th[t2].pc = "done"
        /\ BLen(th[t1].b) = 1
        /\ BLen(th[t2].b) = DigestSize + 1
        /\ th[t2].ctr0 = th[t1].ctr0 + 1

\* C13 as stated: in Intn max is W - (W mod n), W the number of values of
\* the word type, and when n divides W no raw value is rejected.
C13_MaxIsWMinusWModN ==
    \A t \in Threads :
        th[t].pc = "decode" =>
            LET n == th[t].arg
                mx == th[t].max
            IN  /\ mx = WordMod - (WordMod % n)
                /\ WordMod % n = 0 => \A r \in 0..MaxUint64 : r < mx

\* C13: in Intn max is the largest multiple of n not exceeding the largest
\* word value W - 1; it is W - (W mod n) when n does not divide W, and when
\* n divides W it is W - n, the n largest raw values being rejected.
C13_MaxIsLargestMultiple ==
    \A t \in Threads :
        th[t].pc = "decode" =>
            LET n == th[t].arg
                mx == th[t].max
            IN  /\ mx % n = 0
                /\ mx <= MaxUint64
                /\ mx + n > MaxUint64
                /\ WordMod % n # 0 => mx = WordMod - (WordMod % n)
                /\ WordMod % n = 0 =>
                      /\ mx = WordMod - n
                      /\ {r \in 0..MaxUint64 : r >= mx} = (WordMod - n)..MaxUint64

\* Intn has rejected a draw for an n > 1 that divides W.
C13_RejectedForDivisor ==
    \E t \in Threads :
        /\ th[t].pc = "decode"
        /\ th[t].arg > 1
        /\ WordMod % th[t].arg = 0
        /\ th[t].tries > 0

====
